---- MODULE Spec2Model ----
(***************************************************************************)
(* Model of examples/monitoring/prometheus-exporter.py: the metadata       *)
(* collector (scan, parse, update_metrics, missing-repository pass), the   *)
(* main loop that drives it, and the producer that writes the metadata     *)
(* directory the collector reads.                                          *)
(*                                                                         *)
(* Strings are sequences of tokens.  A token is a run of characters that   *)
(* the code never splits: "_" and "metadata" for file names, the words of  *)
(* an error message, the parts of an ISO timestamp.  str.replace, the `in` *)
(* substring test and str.lower work on these sequences as they work on    *)
(* the characters.                                                         *)
(***************************************************************************)
EXTENDS Integers, Sequences, FiniteSets, TLC

(***************************************************************************)
(* Bounds of the model.                                                    *)
(***************************************************************************)
\* cycles of the main loop that are explored
MaxCycles == 3
\* writes and deletions the producer performs in one run
MaxWrites == 2
\* tokens in the stem of a generated file name (SpecInputs)
MaxNameLen == 5
\* tokens in a generated error message (SpecInputs)
MaxMsgLen == 4
\* tokens in the owner and in the name of a generated repository (SpecInputs)
MaxIdLen == 3

(***************************************************************************)
(* Python strings.                                                         *)
(***************************************************************************)
RECURSIVE Replace(_, _, _)
\* str.replace(old, new): every non-overlapping occurrence, left to right
Replace(s, old, new) ==
    IF Len(s) < Len(old) \/ Len(old) = 0 THEN s
    ELSE IF SubSeq(s, 1, Len(old)) = old
         THEN new \o Replace(SubSeq(s, Len(old) + 1, Len(s)), old, new)
         ELSE <<Head(s)>> \o Replace(Tail(s), old, new)

\* `sub in s`
Contains(s, sub) ==
    \E i \in 0..(Len(s) - Len(sub)) : SubSeq(s, i + 1, i + Len(sub)) = sub

\* str.lower on one token
LowerToken(t) ==
    CASE t = "Rate" -> "rate"
      [] t = "LIMIT" -> "limit"
      [] t = "TIMEOUT" -> "timeout"
      [] t = "Network" -> "network"
      [] OTHER -> t

\* str.lower
Lower(s) == [i \in 1..Len(s) |-> LowerToken(s[i])]

\* s.endswith(suffix)
EndsWith(s, suffix) ==
    /\ Len(s) >= Len(suffix)
    /\ SubSeq(s, Len(s) - Len(suffix) + 1, Len(s)) = suffix

\* all sequences over S of length at most n
SeqsUpTo(S, n) == UNION {[1..k -> S] : k \in 0..n}

(***************************************************************************)
(* JSON values of a metadata object.  A key that the object does not hold  *)
(* is Absent.                                                              *)
(***************************************************************************)
Absent == [kind |-> "absent"]
JNull == [kind |-> "null"]
JNum(n) == [kind |-> "num", n |-> n]
JBool(b) == [kind |-> "bool", b |-> b]
JStr(s) == [kind |-> "str", s |-> s]

\* `key in metadata`
Has(v) == v.kind # "absent"

\* bool(metadata.get(key))
Truthy(v) ==
    CASE v.kind = "num" -> v.n # 0
      [] v.kind = "bool" -> v.b
      [] v.kind = "str" -> v.s # <<>>
      [] OTHER -> FALSE

\* the value is an int or a bool, which Python adds and compares as a number
IsNumber(v) == v.kind \in {"num", "bool"}

NumberOf(v) ==
    CASE v.kind = "num" -> v.n
      [] v.kind = "bool" -> (IF v.b THEN 1 ELSE 0)
      [] OTHER -> 0

Fields ==
    {"duration", "all", "pullRequestsFetched", "endTime", "error", "partial",
     "retryCount", "outputFile"}

\* the object {}
EmptyObject == [f \in Fields |-> Absent]

(***************************************************************************)
(* File names of the metadata directory.                                   *)
(***************************************************************************)
\* the glob pattern "*_metadata.json" of scan_metadata_files
Matches(name) == EndsWith(name, <<"_", "metadata", ".json">>)

\* Path.stem: the name without its last suffix
Stem(name) ==
    IF Len(name) > 1 /\ name[Len(name)] \in {".json", ".bak"}
    THEN SubSeq(name, 1, Len(name) - 1)
    ELSE name

\* the repository identifier parse_metadata puts into data['repository']
RepoOf(name) ==
    Replace(Replace(Stem(name), <<"_", "metadata">>, <<>>), <<"_">>, <<"/">>)

\* acme_widgets_metadata.json
FileAcme == <<"acme", "_", "widgets", "_", "metadata", ".json">>
\* acme_metadata_widgets_metadata.json
FileTwin == <<"acme", "_", "metadata", "_", "widgets", "_", "metadata", ".json">>
\* core_metadata.json
FileCore == <<"core", "_", "metadata", ".json">>

\* the names the producer writes while the collector runs
FileNames == {FileAcme, FileCore}

NameTokens == {"a", "_", "metadata"}
\* generated names: any stem, suffix .json
GenNames == {s \o <<".json">> : s \in SeqsUpTo(NameTokens, MaxNameLen)}

\* owners and names of repositories: non-empty, with or without underscores
\* and the text _metadata
GenParts == SeqsUpTo(NameTokens, MaxIdLen) \ {<<>>}

\* repository identifiers owner/name
GenIds == {o \o <<"/">> \o n : o \in GenParts, n \in GenParts}

\* the naming convention of the producer:
\* <identifier with slashes as underscores>_metadata.json
FileOf(id) == Replace(id, <<"/">>, <<"_">>) \o <<"_", "metadata", ".json">>

(***************************************************************************)
(* Timestamps: datetime.fromisoformat and datetime.timestamp.              *)
(***************************************************************************)
DateTokens == {"2024-01-15T10:30:00", "2024-01-15T11:30:00"}

\* seconds since the epoch of a date-time read as UTC
EpochOf(d) == IF d = "2024-01-15T10:30:00" THEN 1705314600 ELSE 1705318200

OffsetTokens == {"+00:00", "+01:00"}
OffsetOf(o) == IF o = "+01:00" THEN 3600 ELSE 0

\* fromisoformat accepts a date-time with or without a UTC offset
IsoOk(s) ==
    \/ Len(s) = 1 /\ s[1] \in DateTokens
    \/ Len(s) = 2 /\ s[1] \in DateTokens /\ s[2] \in OffsetTokens

\* dt.timestamp(); a date-time without offset is read in the local zone, UTC here
IsoTimestamp(s) == EpochOf(s[1]) - (IF Len(s) = 2 THEN OffsetOf(s[2]) ELSE 0)

(***************************************************************************)
(* The metric registry (prometheus_client).  A series exists from the      *)
(* first labels(...) call on; it starts at 0.                              *)
(***************************************************************************)
\* f with f[k] = v
Put(f, k, v) == [x \in (DOMAIN f) \cup {k} |-> IF x = k THEN v ELSE f[x]]

\* value of the series k, 0 when there is none
Val(f, k) == IF k \in DOMAIN f THEN f[k] ELSE 0

\* a gauge that keeps the first value it was given
GaugeSetOnce(g, k, v) == IF k \in DOMAIN g THEN g ELSE Put(g, k, v)

\* Gauge.labels(k).set(v)
GaugeSet(g, k, v) == Put(g, k, v)

\* Counter.labels(k).inc(n), n >= 0
CounterInc(c, k, n) == Put(c, k, Val(c, k) + n)

NoObs == [count |-> 0, sum |-> 0]

\* a histogram that remembers the last observation only
HistObserveLast(h, k, x) == Put(h, k, [count |-> 1, sum |-> x])

\* Histogram.labels(k).observe(x)
HistObserve(h, k, x) ==
    LET old == IF k \in DOMAIN h THEN h[k] ELSE NoObs
    IN  Put(h, k, [count |-> old.count + 1, sum |-> old.sum + x])

EmptyRegistry ==
    [fetch_duration |-> <<>>, prs_fetched |-> <<>>, fetch_errors |-> <<>>,
     last_fetch_timestamp |-> <<>>, fetch_state |-> <<>>,
     rate_limit_encounters |-> <<>>, network_retries |-> <<>>,
     output_file_size |-> <<>>, raised |-> FALSE]

\* an exception leaves the statement: the rest of update_metrics is skipped
Raise(M) == [M EXCEPT !.raised = TRUE]

(***************************************************************************)
(* update_metrics, statement by statement.  M is the registry, md the      *)
(* parsed object, repo its 'repository', disk the output files on disk.    *)
(***************************************************************************)
\* 'full' if metadata.get('all', False) else 'incremental'
FetchType(md) == IF Truthy(md.all) THEN "full" ELSE "incremental"

\* lines 98-104: the duration histogram
ObserveDuration(M, md, repo) ==
    IF M.raised \/ ~Has(md.duration) THEN M
    ELSE LET k == <<repo, FetchType(md)>>
         IN  IF IsNumber(md.duration)
             THEN [M EXCEPT !.fetch_duration =
                                HistObserve(@, k, NumberOf(md.duration))]
             ELSE Raise([M EXCEPT !.fetch_duration =
                                      Put(@, k, IF k \in DOMAIN @ THEN @[k] ELSE NoObs)])

\* an items-fetched gauge that adds the value instead of setting it
SetPrsFetchedAdds(M, md, repo) ==
    IF M.raised \/ ~Has(md.pullRequestsFetched) THEN M
    ELSE IF IsNumber(md.pullRequestsFetched)
         THEN [M EXCEPT !.prs_fetched =
                            CounterInc(@, repo, NumberOf(md.pullRequestsFetched))]
         ELSE Raise([M EXCEPT !.prs_fetched = Put(@, repo, Val(@, repo))])

\* lines 106-108: the items-fetched gauge
SetPrsFetched(M, md, repo) ==
    IF M.raised \/ ~Has(md.pullRequestsFetched) THEN M
    ELSE IF IsNumber(md.pullRequestsFetched)
         THEN [M EXCEPT !.prs_fetched =
                            GaugeSet(@, repo, NumberOf(md.pullRequestsFetched))]
         ELSE Raise([M EXCEPT !.prs_fetched = Put(@, repo, Val(@, repo))])

\* metadata['endTime'].replace('Z', '+00:00')
EndTimeText(v) == Replace(v.s, <<"Z">>, <<"+00:00">>)

\* lines 110-118: the last-fetch timestamp; any failure is swallowed
SetLastFetch(M, md, repo) ==
    IF M.raised \/ ~Has(md.endTime) THEN M
    ELSE IF md.endTime.kind = "str" /\ IsoOk(EndTimeText(md.endTime))
         THEN [M EXCEPT !.last_fetch_timestamp =
                            GaugeSet(@, repo, IsoTimestamp(EndTimeText(md.endTime)))]
         ELSE M

\* str(metadata.get('error', ''))
ErrorMsg(md) ==
    CASE md.error.kind = "str" -> md.error.s
      [] md.error.kind = "num" -> <<"0-9">>
      [] md.error.kind = "bool" -> <<"True">>
      [] OTHER -> <<>>

\* a classification that tests the timeout first
ErrorTypeTimeoutFirst(msg) ==
    IF Contains(Lower(msg), <<"timeout">>) THEN "timeout"
    ELSE IF Contains(Lower(msg), <<"rate", " ", "limit">>) THEN "rate_limit"
    ELSE IF Contains(Lower(msg), <<"network">>) THEN "network"
    ELSE "unknown"

\* lines 125-134: the error class of a message
ErrorType(msg) ==
    IF Contains(Lower(msg), <<"rate", " ", "limit">>) THEN "rate_limit"
    ELSE IF Contains(Lower(msg), <<"timeout">>) THEN "timeout"
    ELSE IF Contains(Lower(msg), <<"network">>) THEN "network"
    ELSE "unknown"

\* a fetch state that tests partial before error
SetFetchStatePartialFirst(M, md, repo) ==
    IF M.raised THEN M
    ELSE IF Truthy(md.partial)
         THEN [M EXCEPT !.fetch_state = GaugeSet(@, repo, 2)]
         ELSE IF Truthy(md.error)
              THEN LET t == ErrorType(ErrorMsg(md))
                       M1 == [M EXCEPT !.fetch_state = GaugeSet(@, repo, 3)]
                       M2 == IF t = "rate_limit"
                             THEN [M1 EXCEPT !.rate_limit_encounters =
                                                 CounterInc(@, repo, 1)]
                             ELSE M1
                   IN  [M2 EXCEPT !.fetch_errors = CounterInc(@, <<repo, t>>, 1)]
              ELSE [M EXCEPT !.fetch_state = GaugeSet(@, repo, 1)]

\* a fetch state that counts a rate-limit encounter for every error
SetFetchStateRateAlways(M, md, repo) ==
    IF M.raised THEN M
    ELSE IF Truthy(md.error)
         THEN LET t == ErrorType(ErrorMsg(md))
                  M1 == [M EXCEPT !.fetch_state = GaugeSet(@, repo, 3)]
                  M2 == [M1 EXCEPT !.rate_limit_encounters = CounterInc(@, repo, 1)]
              IN  [M2 EXCEPT !.fetch_errors = CounterInc(@, <<repo, t>>, 1)]
         ELSE IF Truthy(md.partial)
              THEN [M EXCEPT !.fetch_state = GaugeSet(@, repo, 2)]
              ELSE [M EXCEPT !.fetch_state = GaugeSet(@, repo, 1)]

\* lines 120-143: the fetch state and the error counters
SetFetchState(M, md, repo) ==
    IF M.raised THEN M
    ELSE IF Truthy(md.error)
         THEN LET t == ErrorType(ErrorMsg(md))
                  M1 == [M EXCEPT !.fetch_state = GaugeSet(@, repo, 3)]
                  M2 == IF t = "rate_limit"
                        THEN [M1 EXCEPT !.rate_limit_encounters =
                                            CounterInc(@, repo, 1)]
                        ELSE M1
              IN  [M2 EXCEPT !.fetch_errors = CounterInc(@, <<repo, t>>, 1)]
         ELSE IF Truthy(md.partial)
              THEN [M EXCEPT !.fetch_state = GaugeSet(@, repo, 2)]
              ELSE [M EXCEPT !.fetch_state = GaugeSet(@, repo, 1)]

\* a retry counter that adds whatever number the record holds
CountRetriesUnchecked(M, md, repo) ==
    IF M.raised \/ ~Has(md.retryCount) THEN M
    ELSE IF IsNumber(md.retryCount)
         THEN [M EXCEPT !.network_retries =
                            CounterInc(@, repo, NumberOf(md.retryCount))]
         ELSE Raise([M EXCEPT !.network_retries = Put(@, repo, Val(@, repo))])

\* lines 145-147: the retry counter; Counter.inc refuses a negative amount
CountRetries(M, md, repo) ==
    IF M.raised \/ ~Has(md.retryCount) THEN M
    ELSE IF IsNumber(md.retryCount) /\ NumberOf(md.retryCount) >= 0
         THEN [M EXCEPT !.network_retries =
                            CounterInc(@, repo, NumberOf(md.retryCount))]
         ELSE Raise([M EXCEPT !.network_retries = Put(@, repo, Val(@, repo))])

\* lines 149-155: the output file size
SetOutputSize(M, md, repo, disk) ==
    IF M.raised \/ ~Truthy(md.outputFile) THEN M
    ELSE IF md.outputFile.kind # "str" THEN Raise(M)
    ELSE IF md.outputFile.s \in DOMAIN disk
         THEN [M EXCEPT !.output_file_size =
                            GaugeSet(@, repo, disk[md.outputFile.s])]
         ELSE M

\* update_metrics(metadata): the statements in their order
update_metrics(M, md, repo, disk) ==
    SetOutputSize(
        CountRetries(
            SetFetchState(
                SetLastFetch(
                    SetPrsFetched(
                        ObserveDuration(M, md, repo), md, repo), md, repo),
                md, repo),
            md, repo),
        md, repo, disk)

(***************************************************************************)
(* The metadata directory and the collector's reading of it.               *)
(***************************************************************************)
\* contents of a file: text json.load refuses, JSON that is no object, an object
Malformed == [kind |-> "malformed"]
NonObject == [kind |-> "nonobject"]
Object(md) == [kind |-> "object", md |-> md]

\* names in the directory, in listing order
NamesOf(dir) == [k \in 1..Len(dir) |-> dir[k].name]

InDir(dir, name) == \E k \in 1..Len(dir) : dir[k].name = name

\* position of the entry called name
IndexOf(dir, name) == CHOOSE k \in 1..Len(dir) : dir[k].name = name

\* scan_metadata_files: glob("*_metadata.json")
scan_metadata_files(dir) == SelectSeq(NamesOf(dir), Matches)

None == [ok |-> FALSE]

\* a parse that answers a file it cannot read with the empty object
ParseMetadataLenient(dir, name) ==
    IF ~InDir(dir, name) THEN None
    ELSE LET c == dir[IndexOf(dir, name)].content
         IN  IF c.kind = "object"
             THEN [ok |-> TRUE, md |-> c.md, repo |-> RepoOf(name)]
             ELSE [ok |-> TRUE, md |-> EmptyObject, repo |-> RepoOf(name)]

\* parse_metadata(filepath): None on any Exception, else the object with
\* its 'repository'
parse_metadata(dir, name) ==
    IF ~InDir(dir, name) THEN None
    ELSE LET c == dir[IndexOf(dir, name)].content
         IN  IF c.kind = "object"
             THEN [ok |-> TRUE, md |-> c.md, repo |-> RepoOf(name)]
             ELSE None

\* a table that is rebuilt from the record at hand
DictPutFresh(d, repo, md) == <<[repo |-> repo, metadata |-> md]>>

\* self.known_repos[repo] = metadata, a dict in insertion order
DictPut(d, repo, md) ==
    IF \E k \in 1..Len(d) : d[k].repo = repo
    THEN [k \in 1..Len(d) |->
              IF d[k].repo = repo THEN [repo |-> repo, metadata |-> md] ELSE d[k]]
    ELSE Append(d, [repo |-> repo, metadata |-> md])

KnownKeys(d) == {d[k].repo : k \in 1..Len(d)}

\* a second loop that goes by the names of the scanned files and does not
\* parse them
ParsedReposByName(dir, files) == {RepoOf(files[k]) : k \in 1..Len(files)}

\* lines 169-170: the repositories of the files that parse now
ParsedRepos(dir, files) ==
    {RepoOf(files[k]) : k \in {n \in 1..Len(files) : parse_metadata(dir, files[n]).ok}}

\* a missing-repository test that only asks whether any file parsed
IsMissingWhenNothingParsed(repo, dir, files) == ParsedRepos(dir, files) = {}

\* line 169: repo not in [the repositories parsed from metadata_files]
IsMissing(repo, dir, files) == repo \notin ParsedRepos(dir, files)

(***************************************************************************)
(* What the producer writes.                                               *)
(***************************************************************************)
OutPath == <<"out.ndjson">>

\* a full fetch that succeeded
RecSuccess ==
    [EmptyObject EXCEPT !.all = JBool(TRUE), !.duration = JNum(12),
                        !.pullRequestsFetched = JNum(340),
                        !.endTime = JStr(<<"2024-01-15T10:30:00", "Z">>)]

\* a fetch that failed on the rate limit after two retries
RecFailed ==
    [EmptyObject EXCEPT !.error = JStr(<<"Rate", " ", "limit", " ", "TIMEOUT">>),
                        !.partial = JBool(TRUE), !.retryCount = JNum(2),
                        !.pullRequestsFetched = JNum(7),
                        !.outputFile = JStr(OutPath)]

\* an incremental fetch that stopped early; its endTime is no ISO timestamp
RecPartial ==
    [EmptyObject EXCEPT !.partial = JBool(TRUE), !.duration = JNum(5),
                        !.endTime = JStr(<<"x">>), !.error = JStr(<<>>),
                        !.outputFile = JStr(OutPath)]

\* a retry count no counter accepts
RecBadRetry == [EmptyObject EXCEPT !.retryCount = JNum(-1)]

Pool == {Malformed, Object(RecSuccess), Object(RecFailed), Object(RecPartial),
         Object(RecBadRetry)}

OutSizes == {10, 20}

(***************************************************************************)
(* Generated inputs (SpecInputs).                                          *)
(***************************************************************************)
MsgTokens == {"Rate", " ", "limit", "TIMEOUT", "network", "x"}
GenMsgs == SeqsUpTo(MsgTokens, MaxMsgLen)

\* objects over small domains of every field, with a fixed error message
GenObjects ==
    {[duration |-> d, all |-> a, pullRequestsFetched |-> p, endTime |-> e,
      error |-> er, partial |-> pa, retryCount |-> r, outputFile |-> o] :
        d \in {Absent, JNum(12), JStr(<<"x">>)},
        a \in {Absent, JBool(TRUE), JBool(FALSE)},
        p \in {Absent, JNum(340), JNull},
        e \in {Absent, JStr(<<"2024-01-15T11:30:00", "+01:00">>), JNum(5)},
        er \in {Absent, JStr(<<"network">>)},
        pa \in {Absent, JBool(TRUE), JBool(FALSE)},
        r \in {Absent, JNum(2), JNum(-1), JStr(<<"x">>)},
        o \in {Absent, JStr(OutPath), JNum(1)}}

\* objects with any generated error message
GenFailures ==
    {[EmptyObject EXCEPT !.error = JStr(m), !.partial = pa] :
        m \in GenMsgs, pa \in {Absent, JBool(TRUE)}}

\* one file: any name, any object, or no object at all
GenEntries ==
    {[name |-> n, content |-> Object(RecFailed)] : n \in GenNames}
    \cup {[name |-> FileAcme, content |-> Object(md)] : md \in GenObjects \cup GenFailures}
    \cup {[name |-> FileAcme, content |-> c] : c \in {Malformed, NonObject}}
    \cup {[name |-> FileOf(id), content |-> Object(RecSuccess)] : id \in GenIds}

\* two files, among them the two names of acme/widgets
GenPairs ==
    {d \in {<<[name |-> n1, content |-> c1], [name |-> n2, content |-> c2]>> :
                n1 \in {FileAcme, FileTwin, FileCore},
                n2 \in {FileAcme, FileTwin, FileCore},
                c1 \in Pool, c2 \in Pool} :
        d[1].name # d[2].name}

(***************************************************************************)
(* State.                                                                  *)
(***************************************************************************)
VARIABLES
    pc,                     \* where main() is
    exit_code,              \* what main() returned, -1 while it runs
    dir_exists,             \* metadata_dir.exists() at startup
    server_started,         \* start_http_server was called
    directory,              \* the metadata directory: entries [name, content]
    disk,                   \* output files on disk: path -> size
    metadata_files,         \* collect_metrics: the scanned list
    i,                      \* collect_metrics: position in metadata_files
    j,                      \* collect_metrics: position in list(known_repos.keys())
    known_repos,            \* MetadataCollector.known_repos
    fetch_duration,         \* Histogram, by (repository, fetch_type)
    prs_fetched,            \* Gauge, by repository
    fetch_errors,           \* Counter, by (repository, error_type)
    last_fetch_timestamp,   \* Gauge, by repository
    fetch_state,            \* Gauge, by repository
    rate_limit_encounters,  \* Counter, by repository
    network_retries,        \* Counter, by repository
    output_file_size,       \* Gauge, by repository
    cycles,                 \* cycles completed
    writes                  \* producer steps taken

metrics ==
    <<fetch_duration, prs_fetched, fetch_errors, last_fetch_timestamp, fetch_state,
      rate_limit_encounters, network_retries, output_file_size>>

collector == <<metadata_files, i, j, known_repos>>

vars ==
    <<pc, exit_code, dir_exists, server_started, directory, disk, metadata_files,
      i, j, known_repos, fetch_duration, prs_fetched, fetch_errors,
      last_fetch_timestamp, fetch_state, rate_limit_encounters, network_retries,
      output_file_size, cycles, writes>>

\* the registry as update_metrics sees it
Registry ==
    [fetch_duration |-> fetch_duration, prs_fetched |-> prs_fetched,
     fetch_errors |-> fetch_errors, last_fetch_timestamp |-> last_fetch_timestamp,
     fetch_state |-> fetch_state, rate_limit_encounters |-> rate_limit_encounters,
     network_retries |-> network_retries, output_file_size |-> output_file_size,
     raised |-> FALSE]

\* the registry after a step
SetRegistry(M) ==
    /\ fetch_duration' = M.fetch_duration
    /\ prs_fetched' = M.prs_fetched
    /\ fetch_errors' = M.fetch_errors
    /\ last_fetch_timestamp' = M.last_fetch_timestamp
    /\ fetch_state' = M.fetch_state
    /\ rate_limit_encounters' = M.rate_limit_encounters
    /\ network_retries' = M.network_retries
    /\ output_file_size' = M.output_file_size

\* module load and MetadataCollector.__init__; main() is about to check the directory
InitProcess ==
    /\ pc = "check_dir"
    /\ exit_code = -1
    /\ server_started = FALSE
    /\ metadata_files = <<>>
    /\ i = 1
    /\ j = 1
    /\ known_repos = <<>>
    /\ fetch_duration = <<>>
    /\ prs_fetched = <<>>
    /\ fetch_errors = <<>>
    /\ last_fetch_timestamp = <<>>
    /\ fetch_state = <<>>
    /\ rate_limit_encounters = <<>>
    /\ network_retries = <<>>
    /\ output_file_size = <<>>
    /\ cycles = 0
    /\ writes = 0

\* a directory that holds at most one file of the producer, or no directory
Init ==
    /\ InitProcess
    /\ dir_exists \in BOOLEAN
    /\ directory \in
          {<<>>} \cup
          {<<[name |-> n, content |-> c]>> : n \in (IF dir_exists THEN FileNames ELSE {}),
                                             c \in Pool}
    /\ disk \in {<<>>} \cup {[p \in {OutPath} |-> 10]}

\* a directory that holds one generated file, or two files of the producer
InitInputs ==
    /\ InitProcess
    /\ dir_exists = TRUE
    /\ directory \in {<<e>> : e \in GenEntries} \cup GenPairs
    /\ disk = [p \in {OutPath} |-> 10]

(***************************************************************************)
(* main() and collect_metrics().                                           *)
(***************************************************************************)
Running == pc \in {"scan", "process", "missing", "sleep"}

\* a loop that starts the next cycle without sleeping
EndCycleNoSleep ==
    /\ pc' = "scan"
    /\ cycles' = cycles + 1

\* collect_metrics returned: main() goes to time.sleep
EndCycle ==
    /\ pc' = "sleep"
    /\ cycles' = cycles + 1

\* the first loop is over: the pass over list(self.known_repos.keys()) begins
BeginMissing(known) ==
    IF Len(known) = 0
    THEN EndCycle /\ j' = j
    ELSE pc' = "missing" /\ j' = 1 /\ cycles' = cycles

\* a startup that opens the HTTP server before it looks at the directory
CheckDirLate ==
    /\ pc = "check_dir"
    /\ server_started' = TRUE
    /\ IF dir_exists
       THEN pc' = "start_server" /\ exit_code' = exit_code
       ELSE pc' = "returned" /\ exit_code' = 1
    /\ UNCHANGED <<dir_exists, directory, disk, collector, metrics, cycles, writes>>

\* lines 194-198: the metadata directory must exist
CheckDir ==
    /\ pc = "check_dir"
    /\ IF dir_exists
       THEN pc' = "start_server" /\ exit_code' = exit_code
       ELSE pc' = "returned" /\ exit_code' = 1
    /\ UNCHANGED <<dir_exists, server_started, directory, disk, collector, metrics,
                   cycles, writes>>

\* lines 200-208: the HTTP server is started, the collector created
StartServer ==
    /\ pc = "start_server"
    /\ server_started' = TRUE
    /\ pc' = "scan"
    /\ UNCHANGED <<exit_code, dir_exists, directory, disk, collector, metrics,
                   cycles, writes>>

\* line 159: metadata_files = self.scan_metadata_files()
Scan ==
    /\ pc = "scan"
    /\ metadata_files' = scan_metadata_files(directory)
    /\ i' = 1
    /\ IF Len(metadata_files') = 0
       THEN BeginMissing(known_repos)
       ELSE pc' = "process" /\ j' = j /\ cycles' = cycles
    /\ UNCHANGED <<exit_code, dir_exists, server_started, directory, disk,
                   known_repos, metrics, writes>>

\* lines 161-165: one file of the first loop; an exception of update_metrics
\* leaves collect_metrics and main()
ProcessFile ==
    /\ pc = "process"
    /\ LET m == parse_metadata(directory, metadata_files[i])
           M == IF m.ok THEN update_metrics(Registry, m.md, m.repo, disk)
                        ELSE Registry
       IN  /\ SetRegistry(M)
           /\ IF M.raised
              THEN /\ pc' = "crashed"
                   /\ UNCHANGED <<known_repos, i, j, cycles>>
              ELSE /\ known_repos' = IF m.ok THEN DictPut(known_repos, m.repo, m.md)
                                             ELSE known_repos
                   /\ IF i < Len(metadata_files)
                      THEN i' = i + 1 /\ pc' = "process" /\ j' = j /\ cycles' = cycles
                      ELSE i' = i /\ BeginMissing(known_repos')
    /\ UNCHANGED <<exit_code, dir_exists, server_started, directory, disk,
                   metadata_files, writes>>

\* a second loop that also clears the items-fetched gauge of a missing repository
MissingRepoClearsItems ==
    /\ pc = "missing"
    /\ LET repo == known_repos[j].repo
           gone == IsMissing(repo, directory, metadata_files)
       IN  /\ fetch_state' = IF gone THEN GaugeSet(fetch_state, repo, 0) ELSE fetch_state
           /\ prs_fetched' = IF gone THEN GaugeSet(prs_fetched, repo, 0) ELSE prs_fetched
    /\ IF j < Len(known_repos)
       THEN j' = j + 1 /\ pc' = "missing" /\ cycles' = cycles
       ELSE j' = j /\ EndCycle
    /\ UNCHANGED <<exit_code, dir_exists, server_started, directory, disk,
                   metadata_files, i, known_repos, fetch_duration,
                   fetch_errors, last_fetch_timestamp, rate_limit_encounters,
                   network_retries, output_file_size, writes>>

\* lines 167-171: one known repository of the second loop; every scanned file
\* is parsed again
MissingRepo ==
    /\ pc = "missing"
    /\ LET repo == known_repos[j].repo
       IN  fetch_state' = IF IsMissing(repo, directory, metadata_files)
                          THEN GaugeSet(fetch_state, repo, 0)
                          ELSE fetch_state
    /\ IF j < Len(known_repos)
       THEN j' = j + 1 /\ pc' = "missing" /\ cycles' = cycles
       ELSE j' = j /\ EndCycle
    /\ UNCHANGED <<exit_code, dir_exists, server_started, directory, disk,
                   metadata_files, i, known_repos, fetch_duration, prs_fetched,
                   fetch_errors, last_fetch_timestamp, rate_limit_encounters,
                   network_retries, output_file_size, writes>>

\* line 214: time.sleep(args.interval) returns
Sleep ==
    /\ pc = "sleep"
    /\ cycles < MaxCycles
    /\ pc' = "scan"
    /\ UNCHANGED <<exit_code, dir_exists, server_started, directory, disk,
                   collector, metrics, cycles, writes>>

\* lines 215-217: KeyboardInterrupt inside the try block
Interrupt ==
    /\ Running
    /\ pc' = "returned"
    /\ exit_code' = 0
    /\ UNCHANGED <<dir_exists, server_started, directory, disk, collector, metrics,
                   cycles, writes>>

\* KeyboardInterrupt outside the try block (lines 192-208): nothing catches
\* it, main() does not return and the interpreter ends the process
InterruptEarly ==
    /\ pc \in {"check_dir", "start_server"}
    /\ pc' = "killed"
    /\ UNCHANGED <<exit_code, dir_exists, server_started, directory, disk, collector,
                   metrics, cycles, writes>>

(***************************************************************************)
(* The producer of the metadata directory.                                 *)
(***************************************************************************)
\* The producer is followed from the first scan on and while a cycle can still
\* see what it does: a write before the first scan or during the sleep is read
\* by the collector exactly as the same write made before the next scan.
Alive == pc \in {"scan", "process", "missing"}

\* a file is created or rewritten
WriteFile ==
    /\ Alive /\ writes < MaxWrites
    /\ \E n \in FileNames, c \in Pool :
          directory' =
              IF InDir(directory, n)
              THEN [k \in 1..Len(directory) |->
                        IF directory[k].name = n
                        THEN [name |-> n, content |-> c] ELSE directory[k]]
              ELSE Append(directory, [name |-> n, content |-> c])
    /\ directory' # directory
    /\ writes' = writes + 1
    /\ UNCHANGED <<pc, exit_code, dir_exists, server_started, disk, collector,
                   metrics, cycles>>

\* a file is deleted
DeleteFile ==
    /\ Alive /\ writes < MaxWrites
    /\ \E n \in FileNames :
          /\ InDir(directory, n)
          /\ directory' = SelectSeq(directory, LAMBDA e : e.name # n)
    /\ writes' = writes + 1
    /\ UNCHANGED <<pc, exit_code, dir_exists, server_started, disk, collector,
                   metrics, cycles>>

\* the output file is written, or deleted
WriteOutput ==
    /\ Alive /\ writes < MaxWrites
    /\ \/ \E sz \in OutSizes : disk' = [p \in {OutPath} |-> sz]
       \/ disk' = <<>>
    /\ disk' # disk
    /\ writes' = writes + 1
    /\ UNCHANGED <<pc, exit_code, dir_exists, server_started, directory, collector,
                   metrics, cycles>>

Next ==
    \/ CheckDir
    \/ StartServer
    \/ Scan
    \/ ProcessFile
    \/ MissingRepo
    \/ Sleep
    \/ WriteFile
    \/ DeleteFile
    \/ WriteOutput

Spec == Init /\ [][Next]_vars

\* the producer writes between two cycles only
WriteBetweenCycles ==
    /\ pc = "scan"
    /\ (WriteFile \/ DeleteFile \/ WriteOutput)

NextCycles ==
    \/ CheckDir
    \/ StartServer
    \/ Scan
    \/ ProcessFile
    \/ MissingRepo
    \/ Sleep
    \/ WriteBetweenCycles

SpecCycles == Init /\ [][NextCycles]_vars

\* the program alone, over a directory nobody changes, until it is interrupted
NextInputs ==
    \/ CheckDir
    \/ StartServer
    \/ Scan
    \/ ProcessFile
    \/ MissingRepo
    \/ Sleep
    \/ Interrupt

SpecInputs == InitInputs /\ [][NextInputs]_vars

\* main() from its first line to its end: the directory may be missing, the
\* producer writes between cycles, the interrupt may come at any time
NextMain ==
    \/ CheckDir
    \/ StartServer
    \/ Scan
    \/ ProcessFile
    \/ MissingRepo
    \/ Sleep
    \/ Interrupt
    \/ InterruptEarly
    \/ WriteBetweenCycles

SpecMain == Init /\ [][NextMain]_vars

(***************************************************************************)
(* Properties.                                                             *)
(***************************************************************************)
\* the step about to be taken parses metadata_files[i]
Processing == pc = "process"

\* what parse_metadata returns for the file the first loop is at
Current == parse_metadata(directory, metadata_files[i])

\* the step is one of collect_metrics, not of the producer nor an interrupt
CollectStep == writes' = writes /\ pc' # "returned"

\* the step applies a record: the first loop takes the file at hand and it parses
Applying == Processing /\ CollectStep /\ Current.ok

\* the typed fields of a MetadataRecord that update_metrics reads before the
\* fetch state: a duration and an item count, when present, are numbers
Typed(md) ==
    /\ Has(md.duration) => IsNumber(md.duration)
    /\ Has(md.pullRequestsFetched) => IsNumber(md.pullRequestsFetched)

\* the repositories of the scanned list
ScannedRepos == {RepoOf(metadata_files[n]) : n \in 1..Len(metadata_files)}

\* C1: when a cycle has completed, every repository that an earlier cycle
\* processed and that no file of this cycle's scanned list stands for has its
\* fetch-state gauge at 0.
C1_AbsentRepoIsZero ==
    pc = "sleep" =>
        \A R \in KnownKeys(known_repos) \ ScannedRepos :
            R \in DOMAIN fetch_state /\ fetch_state[R] = 0

\* C1 witness: a repository whose last record was a failure (gauge 3) is absent
\* from the cycle that just completed, next to a file of another repository.
C1_Witness ==
    /\ pc = "sleep"
    /\ metadata_files # <<>>
    /\ \E k \in 1..Len(known_repos) :
          /\ known_repos[k].repo \notin ScannedRepos
          /\ known_repos[k].metadata = RecFailed
          /\ fetch_state[known_repos[k].repo] = 0

\* C2: applying a record sets the fetch-state gauge of its repository to 3 when
\* the error is non-empty (also when partial is true), else to 2 when partial is
\* true, else to 1; the gauge is written whatever it held before.
C2_FetchStateByPriority ==
    [][(Applying /\ Typed(Current.md)) =>
          /\ Current.repo \in DOMAIN fetch_state'
          /\ fetch_state'[Current.repo] =
                (CASE Truthy(Current.md.error) -> 3
                   [] ~Truthy(Current.md.error) /\ Truthy(Current.md.partial) -> 2
                   [] OTHER -> 1)]_vars

\* C2 witness: a record with an error and partial = true was applied over a
\* gauge that an earlier cycle had left at another value, and the gauge is 3.
C2_Witness ==
    /\ cycles >= 1
    /\ pc \in {"missing", "sleep"}
    /\ \E k \in 1..Len(known_repos) :
          /\ known_repos[k].metadata = RecFailed
          /\ fetch_state[known_repos[k].repo] = 3
          /\ \E n \in 1..Len(directory) :
                /\ RepoOf(directory[n].name) = known_repos[k].repo
                /\ directory[n].content = Object(RecFailed)

ErrorClasses == {"rate_limit", "timeout", "network", "unknown"}

\* the step adds exactly 1 to the error counter (repository of the record, t)
Counted(t) ==
    Val(fetch_errors', <<Current.repo, t>>) = Val(fetch_errors, <<Current.repo, t>>) + 1

\* the step applies a record whose error is a non-empty message
ApplyingFailure ==
    /\ Applying
    /\ Typed(Current.md)
    /\ Current.md.error.kind = "str"
    /\ Current.md.error.s # <<>>

\* C3: the error counter that a failed record increments is the one of the
\* first class, in the order rate limit, timeout, network, whose keyword the
\* lower-cased message contains, and unknown when it contains none: a message
\* with "rate limit" counts as rate_limit also when it holds "timeout", and a
\* message with "timeout" and no "rate limit" counts as timeout also when it
\* holds "network".
C3_ErrorClassByPriority ==
    [][ApplyingFailure =>
          LET msg == Lower(Current.md.error.s)
              rl == Contains(msg, <<"rate", " ", "limit">>)
              to == Contains(msg, <<"timeout">>)
              nw == Contains(msg, <<"network">>)
          IN  /\ rl => Counted("rate_limit")
              /\ (~rl /\ to) => Counted("timeout")
              /\ (~rl /\ ~to /\ nw) => Counted("network")
              /\ (~rl /\ ~to /\ ~nw) => Counted("unknown")]_vars

\* C3 witness: the message "TIMEOUTRate limit", timeout first and in mixed
\* case, was counted as rate_limit.
C3_Witness ==
    /\ pc = "sleep"
    /\ Len(directory) = 1
    /\ directory[1].content =
          Object([EmptyObject EXCEPT !.error = JStr(<<"TIMEOUT", "Rate", " ", "limit">>)])
    /\ Val(fetch_errors, <<RepoOf(directory[1].name), "rate_limit">>) = 1
    /\ Val(fetch_errors, <<RepoOf(directory[1].name), "timeout">>) = 0

\* C4: applying a failed record adds 1 to exactly one error counter, one of
\* its repository, and leaves every other error counter as it was; it adds 1
\* to the rate-limit counter of the repository when that class is rate_limit
\* and leaves all rate-limit counters as they were otherwise; applying a
\* record without a non-empty error changes no error and no rate-limit counter.
C4_ErrorCountersByOne ==
    [][(Applying /\ Typed(Current.md)) =>
          IF Truthy(Current.md.error)
          THEN \E t \in ErrorClasses :
                  /\ Counted(t)
                  /\ DOMAIN fetch_errors' = DOMAIN fetch_errors \cup {<<Current.repo, t>>}
                  /\ \A k \in DOMAIN fetch_errors \ {<<Current.repo, t>>} :
                        fetch_errors'[k] = fetch_errors[k]
                  /\ \A R \in DOMAIN rate_limit_encounters' \cup {Current.repo} :
                        Val(rate_limit_encounters', R) =
                            Val(rate_limit_encounters, R)
                            + (IF R = Current.repo /\ t = "rate_limit" THEN 1 ELSE 0)
          ELSE /\ fetch_errors' = fetch_errors
               /\ rate_limit_encounters' = rate_limit_encounters]_vars

\* C4 witness: "connection timeout exceeded": after one cycle the timeout
\* counter of the repository is 1 and it has no rate-limit encounter.
C4_Witness ==
    /\ pc = "sleep"
    /\ cycles = 1
    /\ Len(directory) = 1
    /\ directory[1].content =
          Object([EmptyObject EXCEPT !.error = JStr(<<"x", " ", "TIMEOUT", "x">>)])
    /\ fetch_errors = [k \in {<<RepoOf(directory[1].name), "timeout">>} |-> 1]
    /\ fetch_state[RepoOf(directory[1].name)] = 3
    /\ rate_limit_encounters = <<>>

\* the step takes a file that does not parse
Dropping == Processing /\ CollectStep /\ ~Current.ok

\* the registry a fresh process has after applying the one record md of repo
LoneUpdate(md, repo) == update_metrics(EmptyRegistry, md, repo, disk)

\* C5: the step that takes a file that is malformed, unreadable or no object
\* changes no series and not the known-repository table, and the first loop
\* goes on to the next file or to the second loop; and when the first cycle
\* over a bad file and one record has completed, the registry and the table
\* are exactly those of a cycle over the record alone.
C5_BadFileIsDropped ==
    [][/\ Dropping =>
             /\ metrics' = metrics
             /\ known_repos' = known_repos
             /\ pc' \in {"process", "missing", "sleep"}
             /\ pc' = "process" => i' = i + 1
       /\ (pc' = "sleep" /\ cycles' = 1 /\ Len(directory) = 2) =>
             \A b \in 1..2 :
                LET e == directory[3 - b]
                IN  (directory[b].content.kind # "object" /\ e.content.kind = "object") =>
                       /\ Registry' = LoneUpdate(e.content.md, RepoOf(e.name))
                       /\ known_repos' =
                             <<[repo |-> RepoOf(e.name), metadata |-> e.content.md]>>]_vars

\* C5 witness: a cycle over a malformed acme_widgets_metadata.json and a
\* failed record in core_metadata.json has completed; only core has series.
C5_Witness ==
    /\ pc = "sleep"
    /\ cycles = 1
    /\ directory = <<[name |-> FileAcme, content |-> Malformed],
                     [name |-> FileCore, content |-> Object(RecFailed)]>>
    /\ fetch_state = [r \in {RepoOf(FileCore)} |-> 3]
    /\ KnownKeys(known_repos) = {RepoOf(FileCore)}

\* C6: no record that parses as JSON makes collect_metrics raise: main() is
\* never left through an exception of a cycle.
C6_ErrorsContained == pc # "crashed"

\* the record of the n-th directory entry
RecordAt(n) == directory[n].content.md

\* indexes of the directory entries that stand for R and parse
RecordsOf(R) ==
    {n \in 1..Len(directory) :
        /\ Matches(directory[n].name)
        /\ RepoOf(directory[n].name) = R
        /\ directory[n].content.kind = "object"}

\* the record of the last entry in S
LastRecord(S) == RecordAt(CHOOSE n \in S : \A m \in S : m <= n)

RECURSIVE SumRetries(_)
\* the sum of the retryCount values of the entries in S
SumRetries(S) ==
    IF S = {} THEN 0
    ELSE LET n == CHOOSE x \in S : TRUE
         IN  NumberOf(RecordAt(n).retryCount) + SumRetries(S \ {n})

\* the records of R with a non-empty error
Failures(R) == {n \in RecordsOf(R) : Truthy(RecordAt(n).error)}

\* the records of R that give the items-fetched gauge a value
WithItems(R) == {n \in RecordsOf(R) : Has(RecordAt(n).pullRequestsFetched)}

\* the records of R whose endTime is an ISO timestamp
WithTime(R) ==
    {n \in RecordsOf(R) :
        /\ RecordAt(n).endTime.kind = "str"
        /\ IsoOk(EndTimeText(RecordAt(n).endTime))}

\* the records of R whose output file is on disk
WithOutput(R) ==
    {n \in RecordsOf(R) :
        /\ Truthy(RecordAt(n).outputFile)
        /\ RecordAt(n).outputFile.s \in DOMAIN disk}

\* the records of R with a retryCount
WithRetries(R) == {n \in RecordsOf(R) : Has(RecordAt(n).retryCount)}

\* the repositories that have a record in the directory
RecordRepos ==
    {RepoOf(directory[n].name) :
        n \in {k \in 1..Len(directory) :
                  Matches(directory[k].name) /\ directory[k].content.kind = "object"}}

\* C7: over a directory and output files that never change, after every
\* completed cycle each gauge holds the value the last record of the listing
\* gives it, the same after the first run as after each rerun, while after k
\* cycles the retry counter holds k times the retryCount values of the
\* records and the error counters k times the number of failed records, with
\* the rate-limit counter equal to the rate_limit error counter.
C7_RerunKeepsGaugesAddsCounters ==
    pc = "sleep" =>
        /\ DOMAIN fetch_state = RecordRepos
        /\ DOMAIN prs_fetched = {R \in RecordRepos : WithItems(R) # {}}
        /\ DOMAIN last_fetch_timestamp = {R \in RecordRepos : WithTime(R) # {}}
        /\ DOMAIN output_file_size = {R \in RecordRepos : WithOutput(R) # {}}
        /\ \A R \in RecordRepos :
              /\ fetch_state[R] =
                    (LET md == LastRecord(RecordsOf(R))
                     IN  IF Truthy(md.error) THEN 3
                         ELSE IF Truthy(md.partial) THEN 2 ELSE 1)
              /\ WithItems(R) # {} =>
                    prs_fetched[R] =
                        NumberOf(LastRecord(WithItems(R)).pullRequestsFetched)
              /\ WithTime(R) # {} =>
                    last_fetch_timestamp[R] =
                        IsoTimestamp(EndTimeText(LastRecord(WithTime(R)).endTime))
              /\ WithOutput(R) # {} =>
                    output_file_size[R] =
                        disk[LastRecord(WithOutput(R)).outputFile.s]
              /\ Val(network_retries, R) =
                    cycles * SumRetries(WithRetries(R))
              /\ Val(fetch_errors, <<R, "rate_limit">>) + Val(fetch_errors, <<R, "timeout">>)
                 + Val(fetch_errors, <<R, "network">>) + Val(fetch_errors, <<R, "unknown">>)
                    = cycles * Cardinality(Failures(R))
              /\ Val(rate_limit_encounters, R) = Val(fetch_errors, <<R, "rate_limit">>)

\* C7 witness: the second run over two files of acme/widgets, a success
\* listed before a failure with retryCount 2, has completed.
C7_Witness ==
    /\ pc = "sleep"
    /\ cycles = 2
    /\ directory = <<[name |-> FileTwin, content |-> Object(RecSuccess)],
                     [name |-> FileAcme, content |-> Object(RecFailed)]>>
    /\ fetch_state[RepoOf(FileAcme)] = 3
    /\ prs_fetched[RepoOf(FileAcme)] = 7
    /\ network_retries[RepoOf(FileAcme)] = 4
    /\ fetch_errors[<<RepoOf(FileAcme), "rate_limit">>] = 2

\* the counter c does not decrease in the step and loses no series
Monotone(c, d) ==
    /\ DOMAIN c \subseteq DOMAIN d
    /\ \A k \in DOMAIN d : Val(d, k) >= Val(c, k)

\* C8: no step decreases a series of the error counter, the rate-limit counter
\* or the retry counter, and the retry counter of a repository changes only in
\* a step that applies a record of that repository, by its retryCount.
C8_CountersNeverDecrease ==
    [][/\ Monotone(fetch_errors, fetch_errors')
       /\ Monotone(rate_limit_encounters, rate_limit_encounters')
       /\ Monotone(network_retries, network_retries')
       /\ \A R \in DOMAIN network_retries' :
             Val(network_retries', R) # Val(network_retries, R) =>
                 /\ Applying
                 /\ R = Current.repo
                 /\ IsNumber(Current.md.retryCount)
                 /\ Val(network_retries', R) =
                       Val(network_retries, R) + NumberOf(Current.md.retryCount)]_vars

\* C8 witness: a record with retryCount -1 has been taken after one with
\* retryCount 2 was counted twice; the retry counter still holds 4.
C8_Witness ==
    /\ pc = "crashed"
    /\ \E n \in 1..Len(directory) :
          /\ directory[n].content = Object(RecBadRetry)
          /\ Val(network_retries, RepoOf(directory[n].name)) = 4

\* C9: every repository of the known-repository table, that is of every
\* record parse_metadata accepted, is a non-empty identifier.
C9_RepositoryNonEmpty ==
    \A k \in 1..Len(known_repos) : known_repos[k].repo # <<>>

\* the state the last parsed record of R in the directory classifies to
ClassOf(R) ==
    LET md == LastRecord(RecordsOf(R))
    IN  IF Truthy(md.error) THEN 3 ELSE IF Truthy(md.partial) THEN 2 ELSE 1

\* C10: no step removes or renames an entry of the known-repository table;
\* and when a cycle completes over a directory that changes only between
\* cycles, every known repository without a record in the directory is at
\* fetch state 0, in each such cycle, and every repository with a record is at
\* the non-zero state its record classifies to, whatever it was before.
C10_KnownForeverZeroUntilBack ==
    [][/\ Len(known_repos') >= Len(known_repos)
       /\ \A k \in 1..Len(known_repos) : known_repos'[k].repo = known_repos[k].repo
       /\ pc' = "sleep" =>
             /\ DOMAIN fetch_state' = KnownKeys(known_repos')
             /\ \A R \in KnownKeys(known_repos') :
                   fetch_state'[R] = IF R \in RecordRepos THEN ClassOf(R) ELSE 0]_vars

\* C10 witness: the first loop is about to apply the record of a known
\* repository whose gauge the second loop had set to 0 in an earlier cycle.
C10_Witness ==
    /\ pc = "process"
    /\ cycles = 2
    /\ Current.ok
    /\ Current.repo \in KnownKeys(known_repos)
    /\ fetch_state[Current.repo] = 0

\* C11: when the metadata directory does not exist, main returns from the
\* directory check with exit code 1, the HTTP server is never started and no
\* cycle ever begins, so no series exists; when it exists, main returns only
\* through an interrupt inside the loop (during a cycle or the sleep), after
\* the server was started, and then with exit code 0.
C11_ExitCodes ==
    [][/\ ~dir_exists =>
             /\ ~server_started'
             /\ pc' \in {"check_dir", "returned", "killed"}
             /\ cycles' = 0 /\ metadata_files' = <<>> /\ Registry' = EmptyRegistry
             /\ pc' = "returned" => (exit_code' = 1 /\ pc \in {"check_dir", "returned"})
       /\ (dir_exists /\ pc' = "returned") =>
             /\ exit_code' = 0
             /\ server_started'
             /\ pc \in {"scan", "process", "missing", "sleep", "returned"}
       /\ (exit_code' # -1) <=> (pc' = "returned")]_vars

\* C11 witness: the interrupt came in the second cycle, after the scan found
\* two files and before the first of them was taken, and main returned 0.
C11_Witness ==
    /\ pc = "returned"
    /\ dir_exists
    /\ exit_code = 0
    /\ cycles = 1
    /\ Len(metadata_files) = 2
    /\ i = 1

\* the fetch state a record classifies to
StateOf(md) == IF Truthy(md.error) THEN 3 ELSE IF Truthy(md.partial) THEN 2 ELSE 1

\* what a record adds to the error counter of class t
ErrorsOf(md, t) == IF Truthy(md.error) /\ ErrorType(ErrorMsg(md)) = t THEN 1 ELSE 0

\* what a record adds to the retry counter
RetriesOf(md) == IF Has(md.retryCount) THEN NumberOf(md.retryCount) ELSE 0

\* the directory holds two records, under different file names, that derive
\* the same repository identifier
Colliding ==
    /\ Len(directory) = 2
    /\ directory[1].name # directory[2].name
    /\ Matches(directory[1].name) /\ Matches(directory[2].name)
    /\ RepoOf(directory[1].name) = RepoOf(directory[2].name)
    /\ directory[1].content.kind = "object"
    /\ directory[2].content.kind = "object"

\* C12: when a cycle over two colliding records has completed, the fetch-state
\* gauge of the shared repository is the state of the record processed last;
\* the items-fetched, timestamp and file-size gauges hold the value of the
\* record processed last when it gives one, and that of the first record only
\* when the last gives none; and after k such cycles the retry counter, each
\* error counter and the rate-limit counter hold k times the sum of what the
\* two records add.
C12_CollisionLastWins ==
    (pc = "sleep" /\ Colliding) =>
        LET R == RepoOf(directory[1].name)
            a == RecordAt(1)
            b == RecordAt(2)
            ta == EndTimeText(a.endTime)
            tb == EndTimeText(b.endTime)
            okA == a.endTime.kind = "str" /\ IsoOk(ta)
            okB == b.endTime.kind = "str" /\ IsoOk(tb)
            outA == Truthy(a.outputFile) /\ a.outputFile.s \in DOMAIN disk
            outB == Truthy(b.outputFile) /\ b.outputFile.s \in DOMAIN disk
        IN  /\ DOMAIN fetch_state = {R}
            /\ fetch_state[R] = StateOf(b)
            /\ Has(b.pullRequestsFetched) =>
                  prs_fetched[R] = NumberOf(b.pullRequestsFetched)
            /\ (~Has(b.pullRequestsFetched) /\ Has(a.pullRequestsFetched)) =>
                  prs_fetched[R] = NumberOf(a.pullRequestsFetched)
            /\ okB => last_fetch_timestamp[R] = IsoTimestamp(tb)
            /\ (~okB /\ okA) => last_fetch_timestamp[R] = IsoTimestamp(ta)
            /\ outB => output_file_size[R] = disk[b.outputFile.s]
            /\ (~outB /\ outA) => output_file_size[R] = disk[a.outputFile.s]
            /\ Val(network_retries, R) = cycles * (RetriesOf(a) + RetriesOf(b))
            /\ \A t \in ErrorClasses :
                  Val(fetch_errors, <<R, t>>) = cycles * (ErrorsOf(a, t) + ErrorsOf(b, t))
            /\ Val(rate_limit_encounters, R) =
                  cycles * (ErrorsOf(a, "rate_limit") + ErrorsOf(b, "rate_limit"))

\* C12 witness: one cycle over acme_widgets_metadata.json, a failure with 7
\* items, listed before acme_metadata_widgets_metadata.json, a success with 340
\* items: the gauges of acme/widgets are those of the success, the counters
\* hold the failure's retries and its rate-limit error.
C12_Witness ==
    /\ pc = "sleep"
    /\ cycles = 1
    /\ directory = <<[name |-> FileAcme, content |-> Object(RecFailed)],
                     [name |-> FileTwin, content |-> Object(RecSuccess)]>>
    /\ fetch_state[RepoOf(FileAcme)] = 1
    /\ prs_fetched[RepoOf(FileAcme)] = 340
    /\ network_retries[RepoOf(FileAcme)] = 2
    /\ fetch_errors[<<RepoOf(FileAcme), "rate_limit">>] = 1

\* line 114 fails on the endTime of the record, or the record has none
NoEndTime(md) == ~(md.endTime.kind = "str" /\ IsoOk(EndTimeText(md.endTime)))

\* the outputFile of the record names no file on disk, or the record has none
NoOutput(md) ==
    ~(Truthy(md.outputFile) /\ md.outputFile.kind = "str"
      /\ md.outputFile.s \in DOMAIN disk)

\* C13: a step that applies a record whose endTime is absent or no ISO-8601
\* timestamp leaves every last-fetch-timestamp series as it was, one whose
\* outputFile is absent or names nothing on disk leaves every file-size series
\* as it was, and in both cases the rest of the record is applied: the fetch
\* state of the repository is set from the record, its error, rate-limit and
\* retry counters grow by what the record adds, its items-fetched gauge holds
\* the record's count, the record enters the known-repository table and the
\* cycle goes on.
C13_UnusableFieldSkipped ==
    [][(Applying /\ (NoEndTime(Current.md) \/ NoOutput(Current.md))) =>
          LET md == Current.md
              R == Current.repo
          IN  /\ NoEndTime(md) => last_fetch_timestamp' = last_fetch_timestamp
              /\ NoOutput(md) => output_file_size' = output_file_size
              /\ R \in DOMAIN fetch_state' /\ fetch_state'[R] = StateOf(md)
              /\ \A t \in ErrorClasses :
                    Val(fetch_errors', <<R, t>>) =
                        Val(fetch_errors, <<R, t>>) + ErrorsOf(md, t)
              /\ Val(rate_limit_encounters', R) =
                    Val(rate_limit_encounters, R) + ErrorsOf(md, "rate_limit")
              /\ Val(network_retries', R) = Val(network_retries, R) + RetriesOf(md)
              /\ IsNumber(md.pullRequestsFetched) =>
                    Val(prs_fetched', R) = NumberOf(md.pullRequestsFetched)
              /\ R \in KnownKeys(known_repos')
              /\ pc' \in {"process", "missing", "sleep"}]_vars

\* main() is inside collect_metrics
InCycle == pc \in {"scan", "process", "missing"}

\* C14: a cycle begins only at startup, as the step that follows the start of
\* the HTTP server and before any sleep, or when a sleep ends; a sleep begins
\* only when a cycle has run to completion, that is when the first loop has
\* taken every scanned file and the second loop every known repository; one
\* sleep is followed by one cycle; and a cycle that has begun is left only
\* into the sleep or by the end of the process (interrupt or exception).
C14_CycleThenSleep ==
    [][/\ pc' \in {"scan", "process", "missing", "sleep"} => server_started'
       /\ (pc = "start_server" /\ pc' # pc) => (pc' \in {"scan", "killed"} /\ cycles' = 0)
       /\ (pc' = "scan" /\ pc # "scan") => pc \in {"start_server", "sleep"}
       /\ (pc' = "sleep" /\ pc # "sleep") =>
             /\ InCycle
             /\ cycles' = cycles + 1
             /\ Len(metadata_files') = 0 \/ i' = Len(metadata_files')
             /\ Len(known_repos') = 0 \/ (pc = "missing" /\ j' = Len(known_repos'))
       /\ (pc = "sleep" /\ pc' # "sleep") => (pc' \in {"scan", "returned"} /\ cycles' = cycles)
       /\ InCycle =>
             /\ pc' \in {"scan", "process", "missing", "sleep", "returned", "crashed"}
             /\ pc' \in {"scan", "process", "missing", "returned", "crashed"} =>
                   cycles' = cycles
       /\ pc' = "sleep" => cycles' >= 1]_vars

\* C14 witness: after two cycles and two sleeps the third cycle is in its
\* second loop.
C14_Witness ==
    /\ pc = "missing"
    /\ cycles = 2
    /\ server_started
    /\ Len(known_repos) = 2

\* C15: when the first cycle of the process has completed, next to a producer
\* that rewrites, truncates and deletes files at any point of the cycle, every
\* repository of the known-repository table, which then holds exactly the
\* records this cycle parsed and applied, has the fetch-state value 1, 2 or 3
\* of its record and not 0.
C15_AppliedRecordKeepsState ==
    (pc = "sleep" /\ cycles = 1) =>
        \A k \in 1..Len(known_repos) :
            /\ known_repos[k].repo \in DOMAIN fetch_state
            /\ fetch_state[known_repos[k].repo] = StateOf(known_repos[k].metadata)

\* C16: when a cycle over one file has completed, and the file holds a record
\* and is named by the convention for the repository identifier owner/name,
\* whatever underscores or "_metadata" the owner and the name contain, the
\* known-repository table holds that identifier and no other.
C16_NameRoundTrip ==
    (pc = "sleep" /\ Len(directory) = 1 /\ directory[1].content.kind = "object") =>
        \A id \in GenIds :
            directory[1].name = FileOf(id) => KnownKeys(known_repos) = {id}

\* the series of g with the label R: none, or its value
Series(g, R) == IF R \in DOMAIN g THEN <<g[R]>> ELSE <<>>

\* the series of g, labelled by pairs, whose repository is R
SeriesOfPairs(g, R) == [k \in {x \in DOMAIN g : x[1] = R} |-> g[k]]

\* every series of R but its fetch state
OtherSeries(R) ==
    <<Series(prs_fetched, R), Series(last_fetch_timestamp, R),
      Series(output_file_size, R), Series(rate_limit_encounters, R),
      Series(network_retries, R), SeriesOfPairs(fetch_errors, R),
      SeriesOfPairs(fetch_duration, R)>>

\* the repository labels that have a series
Labels ==
    DOMAIN prs_fetched \cup DOMAIN last_fetch_timestamp \cup DOMAIN output_file_size
    \cup DOMAIN rate_limit_encounters \cup DOMAIN network_retries
    \cup DOMAIN fetch_state
    \cup {k[1] : k \in DOMAIN fetch_errors} \cup {k[1] : k \in DOMAIN fetch_duration}

\* the step is the second loop's, for the repository R
Zeroing(R) == pc = "missing" /\ CollectStep /\ known_repos[j].repo = R

\* C17: a series of a repository R other than its fetch state (items fetched,
\* timestamp, file size, the counters, the histogram) is created or changed
\* only by the step that applies a record of R, and the fetch state of R only
\* by that step or by the second loop's step for R, which sets it to 0; so a
\* step that applies a record changes only series labelled with its repository
\* and the second loop changes only fetch-state gauges.
C17_OnlyOwnSeries ==
    [][\/ metrics' = metrics
       \/ \A R \in Labels \cup Labels' :
             /\ OtherSeries(R)' # OtherSeries(R) => (Applying /\ Current.repo = R)
             /\ Series(fetch_state, R)' # Series(fetch_state, R) =>
                   \/ Applying /\ Current.repo = R
                   \/ Zeroing(R) /\ fetch_state'[R] = 0]_vars

\* C17 witness: a cycle that applied a record of acme/widgets and found core
\* missing has completed: core is at fetch state 0 and keeps the items, the
\* timestamp and the histogram its record gave it before.
C17_Witness ==
    /\ pc = "sleep"
    /\ cycles >= 2
    /\ RepoOf(FileAcme) \in ScannedRepos
    /\ RepoOf(FileCore) \notin ScannedRepos
    /\ Val(fetch_state, RepoOf(FileAcme)) = 3
    /\ Series(fetch_state, RepoOf(FileCore)) = <<0>>
    /\ Series(prs_fetched, RepoOf(FileCore)) = <<340>>
    /\ Series(last_fetch_timestamp, RepoOf(FileCore)) = <<1705314600>>
    /\ <<RepoOf(FileCore), "full">> \in DOMAIN fetch_duration
    /\ fetch_duration[<<RepoOf(FileCore), "full">>].count = 1

\* the cycle under way scanned a file of R and no file of R in the directory
\* parses
Unparsed(R) ==
    /\ pc \in {"process", "missing"}
    /\ R \in ScannedRepos
    /\ RecordsOf(R) = {}

\* C18: while a cycle runs whose scanned list holds a file of a known
\* repository R that does not parse (the directory changing between cycles
\* only), no step changes the entry of R in the known-repository table, which
\* so keeps the last record that parsed, nor any series of R other than its
\* fetch state, and when the cycle completes the fetch-state gauge of R is 0.
C18_UnparsedKnownIsAbsent ==
    [][\A k \in 1..Len(known_repos) :
          Unparsed(known_repos[k].repo) =>
              /\ known_repos'[k] = known_repos[k]
              /\ OtherSeries(known_repos[k].repo)' = OtherSeries(known_repos[k].repo)
              /\ pc' = "sleep" => Series(fetch_state, known_repos[k].repo)' = <<0>>]_vars

\* C18 witness: acme_widgets_metadata.json held a success in an earlier cycle
\* and holds text that is no JSON in the cycle that just completed: the gauge
\* is 0, the table keeps the success, the items gauge keeps 340.
C18_Witness ==
    /\ pc = "sleep"
    /\ \E n \in 1..Len(directory) :
          directory[n] = [name |-> FileAcme, content |-> Malformed]
    /\ FileAcme \in {metadata_files[n] : n \in 1..Len(metadata_files)}
    /\ \E k \in 1..Len(known_repos) :
          known_repos[k] = [repo |-> RepoOf(FileAcme), metadata |-> RecSuccess]
    /\ Series(fetch_state, RepoOf(FileAcme)) = <<0>>
    /\ Series(prs_fetched, RepoOf(FileAcme)) = <<340>>

\* the fetch type of a record whose all flag is a boolean or absent
KindOf(md) == IF md.all = JBool(TRUE) THEN "full" ELSE "incremental"

\* the observations of the histogram series k, none when there is no series
Observed(h, k) == IF k \in DOMAIN h THEN h[k] ELSE NoObs

\* C19: a step that applies a record with a numeric duration adds one
\* observation, of that duration, to the histogram series (repository, full)
\* when the all flag is true and (repository, incremental) when it is false
\* or absent, and leaves every other series of the histogram as it was; a
\* step that applies a record without a duration, and every step that applies
\* no record, leaves the histogram as it was; so after k cycles over one
\* unchanged record the histogram holds k observations in that one series,
\* and no series when the record has no duration.
C19_OneObservationPerRecord ==
    [][/\ (Applying /\ IsNumber(Current.md.duration)) =>
             LET key == <<Current.repo, KindOf(Current.md)>>
             IN  /\ DOMAIN fetch_duration' = DOMAIN fetch_duration \cup {key}
                 /\ fetch_duration'[key].count = Observed(fetch_duration, key).count + 1
                 /\ fetch_duration'[key].sum =
                       Observed(fetch_duration, key).sum + NumberOf(Current.md.duration)
                 /\ \A k \in DOMAIN fetch_duration \ {key} :
                       fetch_duration'[k] = fetch_duration[k]
       /\ (Applying /\ ~Has(Current.md.duration)) => fetch_duration' = fetch_duration
       /\ ~Applying => fetch_duration' = fetch_duration
       /\ (pc' = "sleep" /\ Len(directory) = 1 /\ directory[1].content.kind = "object") =>
             LET md == RecordAt(1)
                 key == <<RepoOf(directory[1].name), KindOf(md)>>
             IN  /\ IsNumber(md.duration) =>
                       /\ DOMAIN fetch_duration' = {key}
                       /\ fetch_duration'[key] =
                             [count |-> cycles', sum |-> cycles' * NumberOf(md.duration)]
                 /\ ~Has(md.duration) => DOMAIN fetch_duration' = {}]_vars

\* C19 witness: three cycles over a record with duration 12 and all = false
\* have completed; the series (acme/widgets, incremental) holds 3 observations.
C19_Witness ==
    /\ pc = "sleep"
    /\ cycles = 3
    /\ Len(directory) = 1
    /\ directory[1].content.kind = "object"
    /\ RecordAt(1).all = JBool(FALSE)
    /\ RecordAt(1).duration = JNum(12)
    /\ DOMAIN fetch_duration = {<<RepoOf(FileAcme), "incremental">>}
    /\ fetch_duration[<<RepoOf(FileAcme), "incremental">>] = [count |-> 3, sum |-> 36]

====
